---- MODULE Spec2Model ----
(***************************************************************************)
(* Model of the expense tracker backend: the in-memory store MemStorage    *)
(* and the HTTP handlers registered by registerRoutes                      *)
(* (src/server/routes.ts), with the request schema of src/shared/schema.ts.*)
(*                                                                         *)
(* Strings that the code parses or formats (path ids, amounts,             *)
(* descriptions) are sequences of one-character strings.  A JavaScript     *)
(* number n is held as the integer n * Scale (thousandths), so that        *)
(* 250.50 is 250500 and 0.125 is 125.                                      *)
(***************************************************************************)
EXTENDS Integers, Sequences, FiniteSets

VARIABLES
    expenses,    \* MemStorage.expenses: the Map, as its entries in insertion order
    currentId,   \* MemStorage.currentId
    now,         \* the system clock read by new Date(), in milliseconds
    req,         \* the HTTP request being handled, NoRequest between requests
    res,         \* the response sent to it
    call,        \* the store method that handler called, and what deleteExpense returned
    ids,         \* history: the ids returned by createExpense, in call order
    deleted200   \* history: the path ids for which DELETE answered 200

vars == <<expenses, currentId, now, req, res, call, ids, deleted200>>

\* ------------------------------------------------------------------ bounds
MaxCreates == 3      \* createExpense calls in a behaviour
MaxTime == 1         \* clock values 0..MaxTime

\* --------------------------------------------------------------- constants
Scale == 10 * 10 * 10
MaxDescription == 100
Categories ==
    {"food", "transport", "shopping", "entertainment",
     "utilities", "healthcare", "education", "others"}

\* ------------------------------------------------------- character helpers
DecDigits == <<"0", "1", "2", "3", "4", "5", "6", "7", "8", "9">>
HexDigits == DecDigits \o <<"a", "b", "c", "d", "e", "f">>
HexUpper == DecDigits \o <<"A", "B", "C", "D", "E", "F">>

Range(s) == {s[i] : i \in DOMAIN s}

\* the value of character c as a digit of the radix, or -1
DigitValue(c, radix) ==
    LET hits == {i \in 1..radix : HexDigits[i] = c \/ HexUpper[i] = c}
    IN IF hits = {} THEN -1 ELSE (CHOOSE i \in hits : TRUE) - 1

Drop(s, n) == SubSeq(s, n + 1, Len(s))

RECURSIVE TrimLeft(_)
TrimLeft(s) ==
    IF s # <<>> /\ Head(s) = " " THEN TrimLeft(Tail(s)) ELSE s

\* the value of the longest prefix of s made of digits of the radix,
\* continuing from the value acc of the digits already read
RECURSIVE ReadDigits(_, _, _)
ReadDigits(s, radix, acc) ==
    IF s = <<>> \/ DigitValue(Head(s), radix) < 0
    THEN acc
    ELSE ReadDigits(Tail(s), radix, acc * radix + DigitValue(Head(s), radix))

\* --------------------------------------------------- JavaScript built-ins
NaN == [nan |-> TRUE, v |-> 0]

\* parseInt(string) with no radix argument
parseInt(string) ==
    LET s1 == TrimLeft(string)
        neg == s1 # <<>> /\ Head(s1) = "-"
        s2 == IF s1 # <<>> /\ Head(s1) \in {"+", "-"} THEN Tail(s1) ELSE s1
        hex == Len(s2) >= 2 /\ s2[1] = "0" /\ s2[2] \in {"x", "X"}
        radix == IF hex THEN 16 ELSE 10
        s3 == IF hex THEN Drop(s2, 2) ELSE s2
        n == ReadDigits(s3, radix, 0)
    IN IF s3 = <<>> \/ DigitValue(Head(s3), radix) < 0
       THEN NaN
       ELSE [nan |-> FALSE, v |-> IF neg THEN 0 - n ELSE n]

isNaN(x) == x.nan

\* the decimal digits of the natural number n
RECURSIVE NatToString(_)
NatToString(n) ==
    IF n < 10 THEN <<DecDigits[n + 1]>>
    ELSE NatToString(n \div 10) \o <<DecDigits[(n % 10) + 1]>>

RECURSIVE StripTrailingZeros(_)
StripTrailingZeros(s) ==
    IF s # <<>> /\ s[Len(s)] = "0"
    THEN StripTrailingZeros(SubSeq(s, 1, Len(s) - 1))
    ELSE s

\* Number.prototype.toString() of the number n / Scale: the shortest decimal
\* that denotes the value, with no trailing zeros and no point for an integer
toString(n) ==
    LET a == IF n < 0 THEN 0 - n ELSE n
        whole == NatToString(a \div Scale)
        f == a % Scale
        padded == <<DecDigits[(f \div 100) + 1],
                    DecDigits[((f \div 10) % 10) + 1],
                    DecDigits[(f % 10) + 1]>>
        frac == StripTrailingZeros(padded)
    IN (IF n < 0 THEN <<"-">> ELSE <<>>)
       \o whole
       \o (IF frac = <<>> THEN <<>> ELSE <<".">> \o frac)

\* ------------------------------------------------------------ Map<K, V>
MapKeys(m) == {m[i].key : i \in DOMAIN m}
MapHas(m, k) == k \in MapKeys(m)
MapValues(m) == [i \in DOMAIN m |-> m[i].value]

\* Map.prototype.set: an existing key keeps its position, a new key is appended
MapSet(m, k, v) ==
    IF MapHas(m, k)
    THEN [i \in DOMAIN m |-> IF m[i].key = k THEN [key |-> k, value |-> v] ELSE m[i]]
    ELSE Append(m, [key |-> k, value |-> v])

\* Map.prototype.delete: the map without the key
MapDelete(m, k) == SelectSeq(m, LAMBDA e : e.key # k)

\* ------------------------------------------------------------- Expense
\* the value `undefined` where an Expense is expected
NoExpense ==
    [id |-> 0, amount |-> <<>>, description |-> <<>>, category |-> "", createdAt |-> 0]

\* Map.prototype.get
MapGet(m, k) ==
    IF MapHas(m, k) THEN (CHOOSE e \in Range(m) : e.key = k).value ELSE NoExpense

\* variant: the comparator with its operands exchanged (ascending order)
compare_ascending(a, b) == a.createdAt - b.createdAt

\* the comparator of both sorts: (a, b) => b.createdAt.getTime() - a.createdAt.getTime()
compare(a, b) == b.createdAt - a.createdAt

\* e placed into the sorted sequence s behind every element that does not
\* compare greater than it
RECURSIVE InsertSorted(_, _)
InsertSorted(s, e) ==
    IF s = <<>> THEN <<e>>
    ELSE IF compare(Head(s), e) <= 0
         THEN <<Head(s)>> \o InsertSorted(Tail(s), e)
         ELSE <<e>> \o s

\* Array.prototype.sort with the comparator above; the sort is stable
\* (ECMAScript 2019): elements that compare equal keep their order
RECURSIVE SortFrom(_, _)
SortFrom(sorted, rest) ==
    IF rest = <<>> THEN sorted
    ELSE SortFrom(InsertSorted(sorted, Head(rest)), Tail(rest))

sort(s) == SortFrom(<<>>, s)

\* ------------------------------------------------------------ MemStorage
getExpenses == sort(MapValues(expenses))

getExpense(id) == MapGet(expenses, id)

\* variant: the id is taken from the size of the map, so that the id of a
\* deleted expense is handed out again
createExpense_reuseIds(insertExpense) ==
    LET id == Len(expenses) + 1
        expense == [id |-> id,
                    amount |-> toString(insertExpense.amount),
                    description |-> insertExpense.description,
                    category |-> insertExpense.category,
                    createdAt |-> now]
    IN [expense |-> expense,
        expenses |-> MapSet(expenses, id, expense),
        currentId |-> currentId + 1]

\* variant: the record is stored under the counter's value after the increment
createExpense_wrongKey(insertExpense) ==
    LET id == currentId
        expense == [id |-> id,
                    amount |-> toString(insertExpense.amount),
                    description |-> insertExpense.description,
                    category |-> insertExpense.category,
                    createdAt |-> now]
    IN [expense |-> expense,
        expenses |-> MapSet(expenses, currentId + 1, expense),
        currentId |-> currentId + 1]

\* variant: the counter is read but not incremented
createExpense_noIncrement(insertExpense) ==
    LET id == currentId
        expense == [id |-> id,
                    amount |-> toString(insertExpense.amount),
                    description |-> insertExpense.description,
                    category |-> insertExpense.category,
                    createdAt |-> now]
    IN [expense |-> expense,
        expenses |-> MapSet(expenses, id, expense),
        currentId |-> currentId]

\* the returned expense and the fields of the store after the call
createExpense(insertExpense) ==
    LET id == currentId
        expense == [id |-> id,
                    amount |-> toString(insertExpense.amount),
                    description |-> insertExpense.description,
                    category |-> insertExpense.category,
                    createdAt |-> now]
    IN [expense |-> expense,
        expenses |-> MapSet(expenses, id, expense),
        currentId |-> currentId + 1]

\* variant: the result of has() is returned and the entry is left in the map
deleteExpense_keepsEntry(id) ==
    [deleted |-> MapHas(expenses, id),
     expenses |-> expenses]

\* variant: the entry is removed and true is returned whatever delete() said
deleteExpense_alwaysTrue(id) ==
    [deleted |-> TRUE,
     expenses |-> MapDelete(expenses, id)]

\* variant: the whole map is cleared when the key was present
deleteExpense_clearsAll(id) ==
    [deleted |-> MapHas(expenses, id),
     expenses |-> IF MapHas(expenses, id) THEN <<>> ELSE expenses]

\* the returned boolean and the map after the call
deleteExpense(id) ==
    [deleted |-> MapHas(expenses, id),
     expenses |-> MapDelete(expenses, id)]

\* variant: the filtered values are returned without the sort
getExpensesByCategory_unsorted(category) ==
    SelectSeq(MapValues(expenses), LAMBDA expense : expense.category = category)

getExpensesByCategory(category) ==
    sort(SelectSeq(MapValues(expenses), LAMBDA expense : expense.category = category))

\* --------------------------------------------------- insertExpenseSchema
\* A field of a JSON body: its JavaScript type and its value.
Undefined == [t |-> "undefined"]
Num(n) == [t |-> "number", v |-> n]
Str(s) == [t |-> "string", v |-> s]

\* variant: z.number().nonnegative(...), which lets the amount 0 through
AmountIssues_nonnegative(x) ==
    IF x.t = "undefined" THEN {[path |-> "amount", message |-> "Required"]}
    ELSE IF x.t # "number"
         THEN {[path |-> "amount", message |-> "Expected number"]}
         ELSE IF ~(x.v >= 0)
              THEN {[path |-> "amount", message |-> "Amount must be positive"]}
              ELSE {}

\* z.number().positive(...)
AmountIssues(x) ==
    IF x.t = "undefined" THEN {[path |-> "amount", message |-> "Required"]}
    ELSE IF x.t # "number"
         THEN {[path |-> "amount", message |-> "Expected number"]}
         ELSE IF ~(x.v > 0)
              THEN {[path |-> "amount", message |-> "Amount must be positive"]}
              ELSE {}

\* z.string().min(1, ...).max(100, ...)
DescriptionIssues(x) ==
    IF x.t = "undefined" THEN {[path |-> "description", message |-> "Required"]}
    ELSE IF x.t # "string"
         THEN {[path |-> "description", message |-> "Expected string"]}
         ELSE IF Len(x.v) < 1
              THEN {[path |-> "description", message |-> "Description is required"]}
              ELSE IF Len(x.v) > MaxDescription
                   THEN {[path |-> "description", message |-> "Description too long"]}
                   ELSE {}

\* variant: z.string(), which accepts a category outside the enumeration
CategoryIssues_anyString(x) ==
    IF x.t = "undefined"
    THEN {[path |-> "category", message |-> "Category is required"]}
    ELSE IF x.t # "string"
         THEN {[path |-> "category", message |-> "Invalid enum value"]}
         ELSE {}

\* z.enum([...], { required_error })
CategoryIssues(x) ==
    IF x.t = "undefined"
    THEN {[path |-> "category", message |-> "Category is required"]}
    ELSE IF x.t # "string" \/ x.v \notin Categories
         THEN {[path |-> "category", message |-> "Invalid enum value"]}
         ELSE {}

\* insertExpenseSchema.parse(body): the ZodError's issues, and the parsed
\* data when there are none
insertExpenseSchema(body) ==
    LET errors == AmountIssues(body.amount)
                  \cup DescriptionIssues(body.description)
                  \cup CategoryIssues(body.category)
    IN [success |-> errors = {},
        errors |-> errors,
        data |-> IF errors = {}
                 THEN [amount |-> body.amount.v,
                       description |-> body.description.v,
                       category |-> body.category.v]
                 ELSE [amount |-> 0, description |-> <<>>, category |-> ""]]

\* ---------------------------------------------------------------- inputs
Chars(n, c) == [i \in 1..n |-> c]
Lunch == <<"L", "u", "n", "c", "h">>

\* request bodies of POST /api/expenses
ValidBodies ==
    {[amount |-> Num(250500), description |-> Str(Lunch), category |-> Str("food")],
     [amount |-> Num(5000), description |-> Str(Chars(MaxDescription, "x")),
      category |-> Str("transport")],
     [amount |-> Num(100), description |-> Str(<<"T", "e", "a">>),
      category |-> Str("food")]}

InvalidBodies ==
    {[amount |-> Num(0), description |-> Str(Lunch), category |-> Str("food")],
     [amount |-> Num(-5000), description |-> Str(Lunch), category |-> Str("food")],
     [amount |-> [t |-> "nan"], description |-> Str(Lunch), category |-> Str("food")],
     [amount |-> [t |-> "string", v |-> 5000], description |-> Str(Lunch),
      category |-> Str("food")],
     [amount |-> Num(5000), description |-> Str(<<>>), category |-> Str("food")],
     [amount |-> Num(5000), description |-> Str(Chars(MaxDescription + 1, "x")),
      category |-> Str("food")],
     [amount |-> Num(5000), description |-> Str(Lunch), category |-> Str("travel")],
     [amount |-> Undefined, description |-> Str(Lunch), category |-> Str("food")],
     [amount |-> Num(5000), description |-> Undefined, category |-> Str("food")],
     [amount |-> Num(5000), description |-> Str(Lunch), category |-> Undefined]}

Bodies == ValidBodies \cup InvalidBodies

\* values of the :id path parameter
PathIds ==
    {<<"1">>, <<"2">>, <<"3">>, <<"4">>, <<"0">>, <<"-", "1">>,
     <<"1", "a", "b", "c">>, <<"1", "2", "a", "b", "c">>, <<"1", ".", "5">>,
     <<"a", "b", "c">>}

\* values of the category query parameter of GET /api/expenses
Queries ==
    {Undefined, Str("food"), Str("transport"), Str("travel"), Str(""),
     [t |-> "array", v |-> "food"]}

\* ------------------------------------------------------------------ state
NoRequest == [op |-> "none"]
NoResponse == [status |-> 0]
NoCall == [method |-> "none"]

Init ==
    /\ expenses = <<>>
    /\ currentId = 1
    /\ now = 0
    /\ req = NoRequest
    /\ res = NoResponse
    /\ call = NoCall
    /\ ids = <<>>
    /\ deleted200 = {}

\* ---------------------------------------------------------------- actions
\* app.post("/api/expenses")
Post(body) ==
    LET parsed == insertExpenseSchema(body)
        created == createExpense(parsed.data)
    IN /\ req = NoRequest
       /\ req' = [op |-> "POST", body |-> body]
       /\ IF ~parsed.success
          THEN /\ res' = [status |-> 400, message |-> "Validation error",
                          errors |-> parsed.errors]
               /\ call' = NoCall
               /\ UNCHANGED <<expenses, currentId, ids>>
          ELSE /\ Len(ids) < MaxCreates
               /\ expenses' = created.expenses
               /\ currentId' = created.currentId
               /\ res' = [status |-> 201, expense |-> created.expense]
               /\ call' = [method |-> "createExpense"]
               /\ ids' = Append(ids, created.expense.id)
       /\ UNCHANGED <<now, deleted200>>

\* app.delete("/api/expenses/:id")
Delete(path) ==
    LET id == parseInt(path)
        done == deleteExpense(id.v)
    IN /\ req = NoRequest
       /\ req' = [op |-> "DELETE", id |-> path]
       /\ IF isNaN(id)
          THEN /\ res' = [status |-> 400, message |-> "Invalid expense ID"]
               /\ call' = NoCall
               /\ UNCHANGED <<expenses, deleted200>>
          ELSE /\ expenses' = done.expenses
               /\ call' = [method |-> "deleteExpense", id |-> id.v,
                           deleted |-> done.deleted]
               /\ IF ~done.deleted
                  THEN /\ res' = [status |-> 404, message |-> "Expense not found"]
                       /\ UNCHANGED deleted200
                  ELSE /\ res' = [status |-> 200,
                                  message |-> "Expense deleted successfully"]
                       /\ deleted200' = deleted200 \cup {path}
       /\ UNCHANGED <<currentId, now, ids>>

\* app.get("/api/expenses/:id")
GetById(path) ==
    LET id == parseInt(path)
        expense == getExpense(id.v)
    IN /\ req = NoRequest
       /\ req' = [op |-> "GET", id |-> path]
       /\ IF isNaN(id)
          THEN /\ res' = [status |-> 400, message |-> "Invalid expense ID"]
               /\ call' = NoCall
          ELSE /\ call' = [method |-> "getExpense", id |-> id.v]
               /\ IF expense = NoExpense
                  THEN res' = [status |-> 404, message |-> "Expense not found"]
                  ELSE res' = [status |-> 200, expense |-> expense]
       /\ UNCHANGED <<expenses, currentId, now, ids, deleted200>>

\* variant: the category parameter is ignored and every expense is returned
GetList_noFilter(category) ==
    /\ req = NoRequest
    /\ req' = [op |-> "LIST", category |-> category]
    /\ call' = [method |-> "getExpenses"]
    /\ res' = [status |-> 200, list |-> getExpenses]
    /\ UNCHANGED <<expenses, currentId, now, ids, deleted200>>

\* app.get("/api/expenses")
GetList(category) ==
    /\ req = NoRequest
    /\ req' = [op |-> "LIST", category |-> category]
    /\ IF category.t = "string" /\ category.v # ""
       THEN /\ call' = [method |-> "getExpensesByCategory", category |-> category.v]
            /\ res' = [status |-> 200, list |-> getExpensesByCategory(category.v)]
       ELSE /\ call' = [method |-> "getExpenses"]
            /\ res' = [status |-> 200, list |-> getExpenses]
    /\ UNCHANGED <<expenses, currentId, now, ids, deleted200>>

\* the handler has returned and the server waits for the next request
Finish ==
    /\ req # NoRequest
    /\ req' = NoRequest
    /\ res' = NoResponse
    /\ call' = NoCall
    /\ UNCHANGED <<expenses, currentId, now, ids, deleted200>>

\* the system clock advances between two requests
Tick ==
    /\ req = NoRequest
    /\ now < MaxTime
    /\ now' = now + 1
    /\ UNCHANGED <<expenses, currentId, req, res, call, ids, deleted200>>

Next ==
    \/ \E body \in Bodies : Post(body)
    \/ \E path \in PathIds : Delete(path)
    \/ \E path \in PathIds : GetById(path)
    \/ \E category \in Queries : GetList(category)
    \/ Finish
    \/ Tick

Spec == Init /\ [][Next]_vars

\* ------------------------------------------------------------ properties
\* the request being answered is a POST that created an expense
Created == req.op = "POST" /\ res.status = 201

\* the path id is an optional sign followed by decimal digits and nothing else
IsIntegerString(path) ==
    LET d == IF path # <<>> /\ Head(path) \in {"+", "-"} THEN Tail(path) ELSE path
    IN d # <<>> /\ \A i \in DOMAIN d : d[i] \in Range(DecDigits)

\* the integer such a path id denotes
IntegerValue(path) ==
    IF Head(path) = "-" THEN 0 - ReadDigits(Tail(path), 10, 0)
    ELSE IF Head(path) = "+" THEN ReadDigits(Tail(path), 10, 0)
    ELSE ReadDigits(path, 10, 0)

\* an expense with this id is in the store
Stored(id) == \E i \in DOMAIN expenses : expenses[i].value.id = id

\* the amount n / Scale written with exactly two digits after the point
\* (for an n with no more than two decimal places)
TwoDecimals(n) ==
    NatToString(n \div Scale)
    \o <<".", DecDigits[((n % Scale) \div 100) + 1],
              DecDigits[(((n % Scale) \div 10) % 10) + 1]>>

\* C1: the k-th createExpense call returns id k: ids start at 1, grow by
\* exactly 1 per create and are never handed out twice, also after deletes.
C1_IdsSequential ==
    /\ \A k \in 1..Len(ids) : ids[k] = k
    /\ Created => res.expense.id = Len(ids)

C1_Witness ==
    /\ Created
    /\ Len(ids) >= 2
    /\ deleted200 # {}
    /\ Len(expenses) < Len(ids)

\* C2: the amount of the record a create stores and returns is the input
\* value written with exactly two decimal places (250.50 gives "250.50").
C2_AmountTwoDecimals ==
    Created =>
        /\ res.expense.amount = TwoDecimals(req.body.amount.v)
        /\ getExpense(res.expense.id).amount = TwoDecimals(req.body.amount.v)

\* C3: GET and DELETE /api/expenses/:id answer 400 whenever the path id is
\* not a valid integer, and then no store method is called.
C3_InvalidIdRejected ==
    (req.op \in {"GET", "DELETE"} /\ ~IsIntegerString(req.id)) =>
        (res.status = 400 /\ call.method = "none")

\* every stored expense is in list() exactly once
ListsEveryExpenseOnce ==
    LET l == getExpenses
    IN /\ Len(l) = Len(expenses)
       /\ Range(l) = Range(MapValues(expenses))
       /\ \A i, j \in DOMAIN l : l[i].id = l[j].id => i = j

\* C4 as stated: list() is ordered by createdAt descending and of any two
\* stored expenses the one created later comes first, also on equal timestamps.
C4_LaterCreatedFirst ==
    LET l == getExpenses
    IN /\ ListsEveryExpenseOnce
       /\ \A i, j \in DOMAIN l :
            i < j => (l[i].createdAt >= l[j].createdAt /\ l[i].id > l[j].id)

\* C4 (amended): list() returns every stored expense exactly once, ordered by
\* createdAt descending; expenses with the same createdAt come in creation
\* order, the one created earlier first.
C4_ListOrder ==
    LET l == getExpenses
    IN /\ ListsEveryExpenseOnce
       /\ \A i, j \in DOMAIN l :
            i < j => \/ l[i].createdAt > l[j].createdAt
                     \/ (l[i].createdAt = l[j].createdAt /\ l[i].id < l[j].id)

C4_Witness ==
    LET l == getExpenses
    IN /\ Len(l) = 3
       /\ l[1].createdAt > l[2].createdAt
       /\ l[2].createdAt = l[3].createdAt
       /\ l[2].id < l[3].id

\* the fields of a body that the schema of the data model rejects
BadAmount(b) == b.amount.t # "number" \/ b.amount.v <= 0
BadDescription(b) ==
    b.description.t # "string"
    \/ Len(b.description.v) = 0
    \/ Len(b.description.v) > MaxDescription
BadCategory(b) == b.category.t # "string" \/ b.category.v \notin Categories
FailsSchema(b) == BadAmount(b) \/ BadDescription(b) \/ BadCategory(b)
BadFields(b) ==
    {f \in {"amount", "description", "category"} :
        \/ (f = "amount" /\ BadAmount(b))
        \/ (f = "description" /\ BadDescription(b))
        \/ (f = "category" /\ BadCategory(b))}

\* C5: a POST whose body fails the schema is answered 400 with an error for
\* each failing field, calls no store method and leaves the stored expenses
\* and the id counter as they were.
C5_InvalidPostRejected ==
    [][\A b \in Bodies :
        (Post(b) /\ FailsSchema(b)) =>
            /\ res'.status = 400
            /\ {e.path : e \in res'.errors} = BadFields(b)
            /\ call'.method = "none"
            /\ expenses' = expenses
            /\ currentId' = currentId]_vars

C5_Witness ==
    /\ req.op = "POST"
    /\ res.status = 400
    /\ Cardinality(res.errors) = 1
    /\ expenses # <<>>
    /\ currentId = Len(ids) + 1

\* C6: right after a create, get(returned.id) is the record create returned,
\* and its description and category are those of the input.
C6_CreateThenGet ==
    Created =>
        /\ getExpense(res.expense.id) = res.expense
        /\ res.expense.description = req.body.description.v
        /\ res.expense.category = req.body.category.v

C6_Witness ==
    /\ Created
    /\ Len(expenses) >= 2
    /\ getExpense(res.expense.id).category = "transport"

\* C7: once DELETE has answered 200 for a path id, every later GET and DELETE
\* for that id answers 404; and for a valid integer id GET and DELETE answer
\* 404 exactly when no expense with that id is stored.
C7_DeletedStaysGone ==
    [][\A p \in PathIds :
        (Delete(p) \/ GetById(p)) =>
            /\ p \in deleted200 => res'.status = 404
            /\ IsIntegerString(p) =>
                 (res'.status = 404 <=> ~Stored(IntegerValue(p)))]_vars

C7_Witness ==
    /\ req.op \in {"GET", "DELETE"}
    /\ req.id \in deleted200
    /\ res.status = 404
    /\ Len(ids) > parseInt(req.id).v
    /\ expenses # <<>>

\* the values the category filter is tried with: the enumerated ones, one
\* outside the enumeration and the empty string
FilterValues == Categories \cup {"travel", ""}

\* C8: listByCategory(c) is list() restricted to the expenses of category c,
\* in the order of list(); a value no stored expense carries gives <<>>.
C8_FilterOfList ==
    \A c \in FilterValues :
        /\ getExpensesByCategory(c) = SelectSeq(getExpenses, LAMBDA e : e.category = c)
        /\ (\A i \in DOMAIN expenses : expenses[i].value.category # c)
              => getExpensesByCategory(c) = <<>>

C8_Witness ==
    LET l == getExpensesByCategory("food")
    IN /\ Len(l) = 2
       /\ l[1].createdAt > l[2].createdAt
       /\ Len(getExpenses) = 3
       /\ getExpenses[2].category = "transport"

\* C9: the length of list() grows by exactly 1 with every successful create,
\* shrinks by exactly 1 with every delete of a stored id, and is changed by
\* nothing else.
C9_ListLength ==
    [][LET before == Len(getExpenses)
           after == Len(getExpenses')
       IN IF \E b \in Bodies : Post(b) /\ res'.status = 201
          THEN after = before + 1
          ELSE IF \E p \in PathIds :
                    Delete(p) /\ call'.method = "deleteExpense" /\ Stored(call'.id)
               THEN after = before - 1
               ELSE after = before]_vars

C9_Witness ==
    /\ req.op = "DELETE"
    /\ res.status = 200
    /\ Len(getExpenses) = 2
    /\ Len(ids) = 3

\* C10: delete(id) returns true exactly when the id is stored; for an id
\* that is not stored it returns false and leaves list() and the id counter
\* unchanged, so a second delete of the same id returns false.
C10_DeleteResult ==
    [][\A p \in PathIds :
        (Delete(p) /\ call'.method = "deleteExpense") =>
            /\ call'.deleted = Stored(call'.id)
            /\ ~Stored(call'.id) =>
                 /\ getExpenses' = getExpenses
                 /\ expenses' = expenses
                 /\ currentId' = currentId
            /\ ~MapHas(expenses', call'.id)]_vars

C10_Witness ==
    /\ req.op = "DELETE"
    /\ call.method = "deleteExpense"
    /\ call.deleted = FALSE
    /\ call.id \in Range(ids)
    /\ expenses # <<>>

\* the number a stored amount denotes, in units of 1 / Scale; -1 when the
\* string is not a decimal numeral
DecimalValue(s) ==
    LET dots == {i \in DOMAIN s : s[i] = "."}
        dot == IF dots = {} THEN Len(s) + 1 ELSE CHOOSE i \in dots : TRUE
        whole == SubSeq(s, 1, dot - 1)
        frac == SubSeq(s, dot + 1, Len(s))
        digits == whole \o frac
    IN IF \/ Cardinality(dots) > 1
          \/ whole = <<>>
          \/ (dots # {} /\ frac = <<>>)
          \/ Len(frac) > 3
          \/ \E i \in DOMAIN digits : digits[i] \notin Range(DecDigits)
       THEN -1
       ELSE ReadDigits(whole, 10, 0) * Scale
            + ReadDigits(frac \o Chars(3 - Len(frac), "0"), 10, 0)

\* C11: every stored expense has an amount greater than 0, a category of
\* the enumeration, a description of 1 to 100 characters, and an id that is
\* the key it is stored under and that no other stored expense holds.
C11_StoredExpensesValid ==
    \A i \in DOMAIN expenses :
        LET e == expenses[i].value
        IN /\ DecimalValue(e.amount) > 0
           /\ e.category \in Categories
           /\ Len(e.description) >= 1
           /\ Len(e.description) <= MaxDescription
           /\ e.id = expenses[i].key
           /\ \A j \in DOMAIN expenses : expenses[j].value.id = e.id => j = i

C11_Witness ==
    /\ Len(expenses) = 3
    /\ \E i \in DOMAIN expenses : Len(expenses[i].value.description) = MaxDescription
    /\ \E i \in DOMAIN expenses : DecimalValue(expenses[i].value.amount) = 100
    /\ \E i \in DOMAIN expenses : expenses[i].value.category = "transport"

\* C12 as stated: GET /api/expenses answers 200 with list() when no category
\* parameter is given and with listByCategory(category) whenever one is
\* given, be it a recognized value, an unrecognized one or the empty string.
C12_FilterWheneverGiven ==
    req.op = "LIST" =>
        /\ res.status = 200
        /\ req.category.t = "undefined" => res.list = getExpenses
        /\ req.category.t = "string" => res.list = getExpensesByCategory(req.category.v)

\* C12 (amended): GET /api/expenses answers 200 with
\* listByCategory(category) when the category parameter is a non-empty
\* string, recognized or not, and with the full list() otherwise: when the
\* parameter is absent, is the empty string or is not a single string.
C12_FilterWhenNonEmpty ==
    req.op = "LIST" =>
        /\ res.status = 200
        /\ IF req.category.t = "string" /\ req.category.v # ""
           THEN /\ res.list = getExpensesByCategory(req.category.v)
                /\ res.list = SelectSeq(getExpenses,
                                        LAMBDA e : e.category = req.category.v)
           ELSE res.list = getExpenses

C12_Witness ==
    /\ req.op = "LIST"
    /\ req.category = Str("")
    /\ Len(res.list) = 3
    /\ getExpensesByCategory("") = <<>>

\* C13: a stored expense does not change while it is stored: any step leaves
\* get(id) as it was for every stored id, except a delete of that id, which
\* removes it; and the reads list, get and listByCategory leave the stored
\* expenses and the id counter unchanged.
C13_StoredExpensesImmutable ==
    [][/\ \A i \in DOMAIN expenses :
            LET k == expenses[i].key
            IN IF MapHas(expenses', k)
               THEN MapGet(expenses', k) = expenses[i].value
               ELSE \E p \in PathIds :
                        Delete(p) /\ call'.method = "deleteExpense" /\ call'.id = k
       /\ ((\E p \in PathIds : GetById(p)) \/ (\E q \in Queries : GetList(q)))
            => (expenses' = expenses /\ currentId' = currentId)]_vars

C13_Witness ==
    /\ req.op = "GET"
    /\ res.status = 200
    /\ res.expense.id = 1
    /\ res.expense.createdAt < now
    /\ Len(ids) = 3
    /\ deleted200 # {}

\* ---------------------------------------- requests in flight at the same time
\* A second specification, SpecC, for handlers that interleave.  A handler
\* is an async function: it runs without interruption from the arrival of
\* its request up to its await, and from there to its response.  The store
\* method it awaits is itself an async function with no await in its body,
\* so the call runs the whole body before the handler is suspended.
\* In SpecC the variables req, res and call hold one entry per connection;
\* the clock stays at its initial value.
MaxConns == 3        \* connections, each carrying one request

Conns == 1..MaxConns

ConcBodies ==
    {[amount |-> Num(250500), description |-> Str(Lunch), category |-> Str("food")],
     [amount |-> Num(5000), description |-> Str(Chars(MaxDescription, "x")),
      category |-> Str("transport")],
     [amount |-> Num(0), description |-> Str(Lunch), category |-> Str("food")]}

ConcPathIds == {<<"1">>, <<"2">>, <<"a", "b", "c">>}

InitC ==
    /\ expenses = <<>>
    /\ currentId = 1
    /\ now = 0
    /\ req = [c \in Conns |-> NoRequest]
    /\ res = [c \in Conns |-> NoResponse]
    /\ call = [c \in Conns |-> NoCall]
    /\ ids = <<>>
    /\ deleted200 = {}

\* the handler of connection c is suspended at its await
Awaiting(c) == req[c] # NoRequest /\ res[c] = NoResponse

\* app.post("/api/expenses"), from the request to the await
BeginPost(c, body) ==
    LET parsed == insertExpenseSchema(body)
        created == createExpense(parsed.data)
    IN /\ req[c] = NoRequest
       /\ req' = [req EXCEPT ![c] = [op |-> "POST", body |-> body]]
       /\ IF ~parsed.success
          THEN /\ res' = [res EXCEPT ![c] = [status |-> 400,
                                             message |-> "Validation error",
                                             errors |-> parsed.errors]]
               /\ UNCHANGED <<expenses, currentId, call, ids>>
          ELSE /\ expenses' = created.expenses
               /\ currentId' = created.currentId
               /\ call' = [call EXCEPT ![c] = [method |-> "createExpense",
                                               awaited |-> created.expense]]
               /\ ids' = Append(ids, created.expense.id)
               /\ UNCHANGED res
       /\ UNCHANGED <<now, deleted200>>

\* app.post("/api/expenses"), from the await to the response
ResumePost(c) ==
    /\ Awaiting(c)
    /\ req[c].op = "POST"
    /\ res' = [res EXCEPT ![c] = [status |-> 201, expense |-> call[c].awaited]]
    /\ UNCHANGED <<expenses, currentId, now, req, call, ids, deleted200>>

\* variant: the awaited boolean is not looked at
DeleteResponse_ignoresResult(deleted) ==
    [status |-> 200, message |-> "Expense deleted successfully"]

\* the response of app.delete to the awaited result of deleteExpense
DeleteResponse(deleted) ==
    IF ~deleted
    THEN [status |-> 404, message |-> "Expense not found"]
    ELSE [status |-> 200, message |-> "Expense deleted successfully"]

\* app.delete("/api/expenses/:id"), from the request to the await
BeginDelete(c, path) ==
    LET id == parseInt(path)
        done == deleteExpense(id.v)
    IN /\ req[c] = NoRequest
       /\ req' = [req EXCEPT ![c] = [op |-> "DELETE", id |-> path]]
       /\ IF isNaN(id)
          THEN /\ res' = [res EXCEPT ![c] = [status |-> 400,
                                             message |-> "Invalid expense ID"]]
               /\ UNCHANGED <<expenses, call>>
          ELSE /\ expenses' = done.expenses
               /\ call' = [call EXCEPT ![c] = [method |-> "deleteExpense",
                                               id |-> id.v,
                                               deleted |-> done.deleted]]
               /\ UNCHANGED res
       /\ UNCHANGED <<currentId, now, ids, deleted200>>

\* app.delete("/api/expenses/:id"), from the await to the response
ResumeDelete(c) ==
    /\ Awaiting(c)
    /\ req[c].op = "DELETE"
    /\ res' = [res EXCEPT ![c] = DeleteResponse(call[c].deleted)]
    /\ deleted200' = IF DeleteResponse(call[c].deleted).status = 200
                     THEN deleted200 \cup {req[c].id}
                     ELSE deleted200
    /\ UNCHANGED <<expenses, currentId, now, req, call, ids>>

NextC ==
    \/ \E c \in Conns, body \in ConcBodies : BeginPost(c, body)
    \/ \E c \in Conns : ResumePost(c)
    \/ \E c \in Conns, path \in ConcPathIds : BeginDelete(c, path)
    \/ \E c \in Conns : ResumeDelete(c)

SpecC == InitC /\ [][NextC]_vars

\* the connections whose handler called createExpense, deleteExpense
Creators == {c \in Conns : call[c].method = "createExpense"}
Deleters == {c \in Conns : call[c].method = "deleteExpense"}

\* the handlers to which deleteExpense(k) returned true
Removers(k) == {d \in Deleters : call[d].id = k /\ call[d].deleted}

\* no handler is suspended at its await
Quiescent == \A c \in Conns : ~Awaiting(c)

\* one request handled alone on the store st: the store after it and the
\* status and expense of its response
SeqStep(st, r) ==
    IF r.op = "POST"
    THEN IF FailsSchema(r.body)
         THEN [expenses |-> st.expenses, currentId |-> st.currentId,
               status |-> 400, expense |-> NoExpense]
         ELSE LET e == [id |-> st.currentId,
                        amount |-> toString(r.body.amount.v),
                        description |-> r.body.description.v,
                        category |-> r.body.category.v,
                        createdAt |-> now]
              IN [expenses |-> Append(st.expenses, [key |-> e.id, value |-> e]),
                  currentId |-> st.currentId + 1,
                  status |-> 201, expense |-> e]
    ELSE IF isNaN(parseInt(r.id))
         THEN [expenses |-> st.expenses, currentId |-> st.currentId,
               status |-> 400, expense |-> NoExpense]
         ELSE [expenses |-> SelectSeq(st.expenses,
                                      LAMBDA x : x.key # parseInt(r.id).v),
               currentId |-> st.currentId,
               status |-> IF \E i \in DOMAIN st.expenses :
                                st.expenses[i].key = parseInt(r.id).v
                          THEN 200 ELSE 404,
               expense |-> NoExpense]

\* the requests of the connections of order handled one after the other
\* from the store st end in the current store with the responses sent
RECURSIVE SeqRunMatches(_, _)
SeqRunMatches(st, order) ==
    IF order = <<>>
    THEN st.expenses = expenses /\ st.currentId = currentId
    ELSE LET c == Head(order)
             step == SeqStep(st, req[c])
         IN /\ res[c].status = step.status
            /\ step.status = 201 => res[c].expense = step.expense
            /\ SeqRunMatches(step, Tail(order))

\* the orders in which the connections that carried a request can be taken
Orders ==
    LET busy == {c \in Conns : req[c] # NoRequest}
    IN {o \in [1..Cardinality(busy) -> busy] :
          \A i, j \in DOMAIN o : o[i] = o[j] => i = j}

\* C14: with handlers interleaving at their awaits, concurrent POSTs get
\* distinct ids and each record is stored until a DELETE removes it, an id is
\* removed by at most one DELETE (which answers 200, the others 404), and
\* whenever no handler is suspended the store and the responses are those of
\* the requests handled one after the other in some order.
C14_AtomicUnderInterleaving ==
    /\ \A c, d \in Creators :
          call[c].awaited.id = call[d].awaited.id => c = d
    /\ \A c \in Creators :
          LET e == call[c].awaited
          IN IF Removers(e.id) = {}
             THEN MapGet(expenses, e.id) = e
             ELSE ~MapHas(expenses, e.id)
    /\ \A d \in Deleters :
          /\ Cardinality(Removers(call[d].id)) <= 1
          /\ call[d].id \in Range(ids) /\ ~MapHas(expenses, call[d].id)
                => Cardinality(Removers(call[d].id)) = 1
          /\ ~Awaiting(d) => res[d].status = IF d \in Removers(call[d].id)
                                             THEN 200 ELSE 404
    /\ Quiescent =>
          \E o \in Orders :
              SeqRunMatches([expenses |-> <<>>, currentId |-> 1], o)

\* two DELETEs of id 1 ran while the POST that created it was suspended:
\* one has answered 200, the other got false
C14_Witness ==
    \E c, d1, d2 \in Conns :
        /\ c \in Creators /\ Awaiting(c) /\ call[c].awaited.id = 1
        /\ d1 \in Removers(1) /\ res[d1].status = 200
        /\ d2 \in Deleters \ {d1} /\ call[d2].id = 1 /\ ~call[d2].deleted

====
